---------------------------- MODULE Spec2Model ----------------------------
(* A model of the Chinese_NER utilities: the record builder                *)
(* (convert_excel.py), the PDF renderers (convert_image.py), the           *)
(* PDF-to-preprocessed pipeline (Source/pdf_to_preprocessed_image.py) and  *)
(* the OCR batch runner (OCR_chinese.py).                                  *)
(*                                                                         *)
(* Python strings are modelled as sequences of one-character strings, so   *)
(* that strip, split, join, zfill, isdigit, int and str are computed       *)
(* character by character as the interpreter computes them.                *)
EXTENDS Integers, Sequences, FiniteSets, TLC

VARIABLES
    pc,          \* position of the running utility
    json_exists, \* convert_excel: json_path.exists()
    json_stem,   \* convert_excel: json_path.stem
    json_data,   \* convert_excel: the parsed OCR JSON
    args,        \* convert_excel: the argparse namespace
    pandas_ok,   \* convert_excel: whether `import pandas` succeeds
    column_idx,  \* build_id's column_idx when it is called on its own
    inferred,    \* result of infer_book_and_volume
    id,          \* result of build_id
    rows,        \* result of load_rows
    main_book_code, \* convert_excel main: its local book_code
    main_volume,    \* convert_excel main: its local volume
    files,       \* files and directories created by the run
    exit_code,   \* convert_excel: how the run ended ("none", "ok", "fatal")
    util,        \* which PDF routine runs: "single", "all", "render", "pipeline"
    pdf_exists,  \* whether the PDF file is there
    pdf_opens,   \* whether fitz.open succeeds on the file when it is there
    num_pages,   \* len(doc)
    page_number, \* the zero-based page index passed by the caller
    zoom_ok,     \* whether the zoom passed is greater than 0
    typed,       \* what the user types at the page prompt
    folder_exists, \* whether output_folder was there before the run
    page_index,  \* pipeline main: the index returned by the prompt
    pages_done,  \* convert_all: pages saved so far
    image_data,  \* pipeline main: the rendered page ("none" until it is there)
    processed_image, \* pipeline main: the preprocessed image ("none" until then)
    outcome,     \* what the routine reported
    is_dir,      \* run_folder: os.path.isdir(folder_path)
    listing,     \* run_folder: the entries of the folder
    image_files, \* run_folder: the paths collected
    attempted,   \* run_folder: the images run_ocr was called on, in order
    failed,      \* run_folder: the images whose run_ocr raised
    ocr_saved    \* run_ocr: the images whose results were saved

builderVars == <<json_exists, json_stem, json_data, args, pandas_ok,
                 column_idx, inferred, id, rows, main_book_code, main_volume>>

pdfVars == <<util, pdf_exists, pdf_opens, num_pages, page_number, zoom_ok, typed,
             folder_exists, page_index, pages_done, image_data,
             processed_image, outcome>>

ocrVars == <<is_dir, listing, image_files, attempted, failed, ocr_saved>>

vars == <<pc, builderVars, files, exit_code, pdfVars, ocrVars>>

-----------------------------------------------------------------------------
(* Bounds of the model.                                                    *)

MaxStemLen == 4
MaxTexts == 3
MaxPolys == 2
MaxColumn == 100
MaxMainTexts == 2
MaxLongTexts == 11
MaxPages == 5
MaxEntries == 4

-----------------------------------------------------------------------------
(* Strings.                                                                *)

DigitChars == <<"0", "1", "2", "3", "4", "5", "6", "7", "8", "9">>

Whitespace == {" "}

Max(a, b) == IF a >= b THEN a ELSE b

RECURSIVE SeqsUpTo(_, _)
SeqsUpTo(S, n) ==
    IF n = 0 THEN {<<>>}
    ELSE LET shorter == SeqsUpTo(S, n - 1)
         IN  shorter \cup {Append(s, c) : s \in {t \in shorter : Len(t) = n - 1}, c \in S}

\* str(n) for an int
RECURSIVE StrNat(_)
StrNat(n) ==
    IF n < 10 THEN <<DigitChars[n + 1]>>
    ELSE StrNat(n \div 10) \o <<DigitChars[(n % 10) + 1]>>

Str(n) == IF n < 0 THEN <<"-">> \o StrNat(0 - n) ELSE StrNat(n)

\* str.isdigit(): non-empty and every character a digit
IsDigit(s) ==
    /\ s # <<>>
    /\ \A i \in 1..Len(s) : \E d \in 1..10 : DigitChars[d] = s[i]

DigitValue(c) == (CHOOSE d \in 1..10 : DigitChars[d] = c) - 1

\* int(s) for a string of digits
RECURSIVE IntOf(_)
IntOf(s) ==
    IF s = <<>> THEN 0
    ELSE 10 * IntOf(SubSeq(s, 1, Len(s) - 1)) + DigitValue(s[Len(s)])

Zeros(n) == [i \in 1..n |-> "0"]

\* str.zfill(width): zeros go after a leading sign, nothing is removed
Zfill(s, width) ==
    IF Len(s) >= width THEN s
    ELSE IF s # <<>> /\ s[1] \in {"+", "-"}
         THEN <<s[1]>> \o Zeros(width - Len(s)) \o Tail(s)
         ELSE Zeros(width - Len(s)) \o s

\* str.strip(): leading and trailing whitespace removed
RECURSIVE LStrip(_)
LStrip(s) ==
    IF s # <<>> /\ Head(s) \in Whitespace THEN LStrip(Tail(s)) ELSE s

RECURSIVE RStrip(_)
RStrip(s) ==
    IF s # <<>> /\ s[Len(s)] \in Whitespace
    THEN RStrip(SubSeq(s, 1, Len(s) - 1)) ELSE s

Strip(s) == RStrip(LStrip(s))

\* str.split(sep): a list of at least one part; adjacent separators give ""
RECURSIVE Split(_, _)
Split(s, sep) ==
    IF \A i \in 1..Len(s) : s[i] # sep THEN <<s>>
    ELSE LET p == CHOOSE i \in 1..Len(s) :
                      s[i] = sep /\ \A j \in 1..(i - 1) : s[j] # sep
         IN  <<SubSeq(s, 1, p - 1)>> \o Split(SubSeq(s, p + 1, Len(s)), sep)

\* sep.join(parts), sep a string
RECURSIVE Join(_, _)
Join(parts, sep) ==
    IF parts = <<>> THEN <<>>
    ELSE IF Len(parts) = 1 THEN parts[1]
    ELSE parts[1] \o sep \o Join(Tail(parts), sep)

\* pathlib's PurePath.stem of a path without directory separators: the
\* name "." is the empty path, and the last suffix is cut only when its
\* dot is neither the first nor the last character of the name
PathStem(p) ==
    IF p = <<".">> THEN <<>>
    ELSE LET dots == {i \in 1..Len(p) : p[i] = "."}
             last == IF dots = {} THEN 0
                     ELSE CHOOSE i \in dots : \A j \in dots : j <= i
         IN  IF 1 < last /\ last < Len(p) THEN SubSeq(p, 1, last - 1) ELSE p

-----------------------------------------------------------------------------
(* convert_excel.py: infer_book_and_volume, build_id, load_rows.           *)

\* candidate_path = json_data.get("input_path") or json_path.stem
\* (an absent and an empty input_path are both the empty sequence here)
CandidateStem(jd, stem) ==
    PathStem(IF jd.input_path # <<>> THEN jd.input_path ELSE stem)

InferNoFallback(jd, stem) ==
    LET candidate_stem == CandidateStem(jd, stem)
        parts == Split(candidate_stem, "_")
    IN  IF IsDigit(parts[Len(parts)])
        THEN [book_code |-> Join(SubSeq(parts, 1, Len(parts) - 1), <<"_">>),
              volume |-> IntOf(parts[Len(parts)])]
        ELSE [book_code |-> candidate_stem, volume |-> 1]

InferBookAndVolume(jd, stem) ==
    LET candidate_stem == CandidateStem(jd, stem)
        parts == Split(candidate_stem, "_")
        prefix == Join(SubSeq(parts, 1, Len(parts) - 1), <<"_">>)
    IN  IF IsDigit(parts[Len(parts)])
        THEN [book_code |-> IF prefix # <<>> THEN prefix ELSE candidate_stem,
              volume |-> IntOf(parts[Len(parts)])]
        ELSE [book_code |-> candidate_stem, volume |-> 1]

\* mutants of build_id: a fixed-width field that cuts the leading digits,
\* a 0-based column, and the page passed where the column belongs
FixedWidth(s, width) ==
    LET z == Zfill(s, width)
    IN  IF width > 0 /\ Len(z) > width
        THEN SubSeq(z, Len(z) - width + 1, Len(z)) ELSE z

BuildIdTruncating(book_code, volume, page, col, volume_pad, page_pad, column_pad) ==
    book_code \o <<".">> \o FixedWidth(Str(volume), volume_pad)
              \o <<".">> \o FixedWidth(Str(page), page_pad)
              \o <<".">> \o FixedWidth(Str(col), column_pad)

BuildIdZeroBased(book_code, volume, page, col, volume_pad, page_pad, column_pad) ==
    book_code \o <<".">> \o Zfill(Str(volume), volume_pad)
              \o <<".">> \o Zfill(Str(page), page_pad)
              \o <<".">> \o Zfill(Str(col - 1), column_pad)

BuildIdPageForColumn(book_code, volume, page, col, volume_pad, page_pad, column_pad) ==
    book_code \o <<".">> \o Zfill(Str(volume), volume_pad)
              \o <<".">> \o Zfill(Str(page), page_pad)
              \o <<".">> \o Zfill(Str(page), column_pad)

BuildId(book_code, volume, page, col, volume_pad, page_pad, column_pad) ==
    book_code \o <<".">> \o Zfill(Str(volume), volume_pad)
              \o <<".">> \o Zfill(Str(page), page_pad)
              \o <<".">> \o Zfill(Str(col), column_pad)

\* json.dumps of a rec_polys entry: null, or a list of [x, y] points
DumpsPoint(pt) == <<"[">> \o Str(pt[1]) \o <<",", " ">> \o Str(pt[2]) \o <<"]">>

Dumps(box) ==
    IF box.kind = "null" THEN <<"n", "u", "l", "l">>
    ELSE <<"[">>
         \o Join([i \in 1..Len(box.pts) |-> DumpsPoint(box.pts[i])], <<",", " ">>)
         \o <<"]">>

\* Python truth value of a rec_polys entry: None and [] are false
Truthy(box) == box.kind = "list" /\ box.pts # <<>>

NoBox == [kind |-> "null", pts |-> <<>>]

CleanedNoStrip(text) == IF text.isStr THEN text.val ELSE <<>>

\* cleaned = text.strip() if isinstance(text, str) else ""
Cleaned(text) == IF text.isStr THEN Strip(text.val) ELSE <<>>

BoxAtNext(rec_polys, idx) ==
    IF idx < Len(rec_polys) THEN rec_polys[idx + 1] ELSE NoBox

\* box = rec_polys[idx - 1] if idx - 1 < len(rec_polys) else None
\* (Python's 0-based rec_polys[idx - 1] is the sequence's element idx)
BoxAt(rec_polys, idx) ==
    IF idx - 1 < Len(rec_polys) THEN rec_polys[idx] ELSE NoBox

\* json.dumps(box, ensure_ascii=False) if box else ""
ImageBox(box) == IF Truthy(box) THEN Dumps(box) ELSE <<>>

ImageName(book_code, page, page_pad) ==
    book_code \o <<"_", "p", "a", "g", "e", "_">> \o Zfill(Str(page), page_pad)
              \o <<".", "p", "n", "g">>

LoadRows(jd, book_code, volume, page, include_empty, volume_pad, page_pad, column_pad) ==
    LET rec_texts == jd.rec_texts
        rec_polys == jd.rec_polys
        image_name == ImageName(book_code, page, page_pad)
        \* Loop[idx]: rows after the entries 1..idx of enumerate(rec_texts, start=1)
        Loop[idx \in 0..Len(rec_texts)] ==
            IF idx = 0 THEN <<>>
            ELSE LET cleaned == Cleaned(rec_texts[idx])
                 IN  IF cleaned = <<>> /\ ~include_empty THEN Loop[idx - 1]
                     ELSE Append(Loop[idx - 1],
                                 [ID |-> BuildId(book_code, volume, page, idx,
                                                 volume_pad, page_pad, column_pad),
                                  Image_name |-> image_name,
                                  Han_Char |-> cleaned,
                                  Image_Box |-> ImageBox(BoxAt(rec_polys, idx))])
    IN  Loop[Len(rec_texts)]

ChooseBookCodePositionalFirst(a, inferred_book) ==
    IF a.book_code_arg # <<>> THEN a.book_code_arg
    ELSE IF a.book_code # <<>> THEN a.book_code
    ELSE IF inferred_book # <<>> THEN inferred_book
    ELSE a.base_book_code

\* lines 216-221: the first non-empty of --book-code, the positional book
\* code, the inferred code and --base-book-code
ChooseBookCode(a, inferred_book) ==
    IF a.book_code # <<>> THEN a.book_code
    ELSE IF a.book_code_arg # <<>> THEN a.book_code_arg
    ELSE IF inferred_book # <<>> THEN inferred_book
    ELSE a.base_book_code

\* line 222: volume = args.volume if args.volume is not None else inferred_volume
ChooseVolume(a, inferred_volume) ==
    IF a.has_volume THEN a.volume ELSE inferred_volume

-----------------------------------------------------------------------------
(* Inputs.                                                                 *)

LSE_001 == <<"L", "S", "E", "_", "0", "0", "1">>
BOOK_BASE == <<"B", "O", "O", "K", "_", "B", "A", "S", "E">>
giam_cuong_7 == <<"g", "i", "a", "m", "_", "c", "u", "o", "n", "g", "_", "7">>
giam_cuong_7_res == giam_cuong_7 \o <<"_", "r", "e", "s">>
report == <<"r", "e", "p", "o", "r", "t">>

NonStr == [isStr |-> FALSE, val |-> <<>>]
Text(s) == [isStr |-> TRUE, val |-> s]

TextEntries ==
    {NonStr, Text(<<>>), Text(<<" ">>), Text(<<" ", "x", " ", "y", " ">>),
     Text(<<"y">>)}

Poly(pts) == [kind |-> "list", pts |-> pts]
Poly1 == Poly(<<<<1, 2>>, <<30, 4>>>>)
Poly2 == Poly(<<<<5, 6>>>>)

PolyEntries == {NoBox, Poly(<<>>), Poly1, Poly2}

StemChars == {"a", "_", "7", "0", "."}

NoJson == [input_path |-> <<>>, rec_texts |-> <<>>, rec_polys |-> <<>>]

\* the argparse defaults of parse_args (lines 37-92)
DefaultArgs ==
    [book_code |-> <<>>, book_code_arg |-> <<>>, base_book_code |-> BOOK_BASE,
     has_volume |-> FALSE, volume |-> 0, page |-> 1,
     include_empty |-> FALSE, write_excel |-> FALSE,
     volume_pad |-> 3, page_pad |-> 3, column_pad |-> 2]

PadChoices ==
    {[v |-> 3, p |-> 3, c |-> 2], [v |-> 0, p |-> 1, c |-> 1],
     [v |-> 5, p |-> 2, c |-> 3]}

NoTyped == [kind |-> "empty", n |-> 0]

PdfIdle ==
    /\ util = "none"
    /\ pdf_exists = TRUE
    /\ pdf_opens = TRUE
    /\ num_pages = 1
    /\ page_number = 0
    /\ zoom_ok = TRUE
    /\ typed = NoTyped
    /\ folder_exists = TRUE
    /\ page_index = 0
    /\ pages_done = 0
    /\ image_data = "none"
    /\ processed_image = "none"
    /\ outcome = "none"

OcrIdle ==
    /\ is_dir = TRUE
    /\ listing = {}
    /\ image_files = <<>>
    /\ attempted = <<>>
    /\ failed = {}
    /\ ocr_saved = {}

BuilderIdle ==
    /\ json_exists = TRUE
    /\ json_stem = report
    /\ json_data = NoJson
    /\ args = DefaultArgs
    /\ pandas_ok = TRUE
    /\ column_idx = 1
    /\ inferred = [book_code |-> <<>>, volume |-> 0]
    /\ id = <<>>
    /\ rows = <<>>
    /\ main_book_code = <<>>
    /\ main_volume = 0

-----------------------------------------------------------------------------
(* infer_book_and_volume called on its own.                                *)

InitInfer ==
    /\ pc = "infer"
    /\ files = {} /\ exit_code = "none"
    /\ json_exists = TRUE
    /\ json_stem \in {report, giam_cuong_7_res, <<"7">>}
    /\ json_data \in
           [input_path : SeqsUpTo(StemChars, MaxStemLen) \cup {giam_cuong_7, report},
            rec_texts : {<<>>}, rec_polys : {<<>>}]
    /\ args = DefaultArgs
    /\ pandas_ok = TRUE
    /\ column_idx = 1
    /\ inferred = [book_code |-> <<>>, volume |-> 0]
    /\ id = <<>> /\ rows = <<>> /\ main_book_code = <<>> /\ main_volume = 0
    /\ PdfIdle /\ OcrIdle

InferCall ==
    /\ pc = "infer"
    /\ inferred' = InferBookAndVolume(json_data, json_stem)
    /\ pc' = "inferred"
    /\ UNCHANGED <<json_exists, json_stem, json_data, args, pandas_ok,
                   column_idx, id, rows, main_book_code, main_volume, files, exit_code, pdfVars, ocrVars>>

NextInfer == InferCall

SpecInfer == InitInfer /\ [][NextInfer]_vars

-----------------------------------------------------------------------------
(* build_id called on its own.                                             *)

InitId ==
    /\ pc = "build_id"
    /\ files = {} /\ exit_code = "none"
    /\ json_exists = TRUE /\ json_stem = report /\ json_data = NoJson
    /\ \E b \in {LSE_001, <<"b">>}, v \in {0, 4, 1234}, p \in {1, 12},
          pad \in PadChoices :
           args = [DefaultArgs EXCEPT !.book_code = b, !.has_volume = TRUE,
                                      !.volume = v, !.page = p,
                                      !.volume_pad = pad.v, !.page_pad = pad.p,
                                      !.column_pad = pad.c]
    /\ pandas_ok = TRUE
    /\ column_idx \in 1..MaxColumn
    /\ inferred = [book_code |-> <<>>, volume |-> 0]
    /\ id = <<>> /\ rows = <<>> /\ main_book_code = <<>> /\ main_volume = 0
    /\ PdfIdle /\ OcrIdle

BuildIdCall ==
    /\ pc = "build_id"
    /\ id' = BuildId(args.book_code, args.volume, args.page, column_idx,
                     args.volume_pad, args.page_pad, args.column_pad)
    /\ pc' = "built"
    /\ UNCHANGED <<json_exists, json_stem, json_data, args, pandas_ok,
                   column_idx, inferred, rows, main_book_code, main_volume, files, exit_code, pdfVars, ocrVars>>

NextId == BuildIdCall

SpecId == InitId /\ [][NextId]_vars

-----------------------------------------------------------------------------
(* load_rows called on its own.                                            *)

InitRows ==
    /\ pc = "load_rows"
    /\ files = {} /\ exit_code = "none"
    /\ json_exists = TRUE /\ json_stem = report
    /\ json_data \in
           [input_path : {<<>>},
            rec_texts : SeqsUpTo(TextEntries, MaxTexts),
            rec_polys : SeqsUpTo(PolyEntries, MaxPolys)]
           \cup
           [input_path : {<<>>},
            rec_texts : [1..MaxLongTexts -> {Text(<<"y">>), Text(<<" ">>)}],
            rec_polys : {<<>>, <<Poly1, Poly2>>}]
    /\ \E ie \in BOOLEAN,
          q \in {[b |-> LSE_001, v |-> 4, p |-> 1, pad |-> [v |-> 3, p |-> 3, c |-> 2]],
                 [b |-> <<"b">>, v |-> 1234, p |-> 12, pad |-> [v |-> 2, p |-> 1, c |-> 0]]} :
           args = [DefaultArgs EXCEPT !.book_code = q.b, !.has_volume = TRUE,
                                      !.volume = q.v, !.page = q.p,
                                      !.include_empty = ie,
                                      !.volume_pad = q.pad.v, !.page_pad = q.pad.p,
                                      !.column_pad = q.pad.c]
    /\ pandas_ok = TRUE
    /\ column_idx = 1
    /\ inferred = [book_code |-> <<>>, volume |-> 0]
    /\ id = <<>> /\ rows = <<>> /\ main_book_code = <<>> /\ main_volume = 0
    /\ PdfIdle /\ OcrIdle

LoadRowsCall ==
    /\ pc = "load_rows"
    /\ rows' = LoadRows(json_data, args.book_code, args.volume, args.page,
                        args.include_empty, args.volume_pad, args.page_pad,
                        args.column_pad)
    /\ pc' = "loaded"
    /\ UNCHANGED <<json_exists, json_stem, json_data, args, pandas_ok,
                   column_idx, inferred, id, main_book_code, main_volume, files, exit_code, pdfVars, ocrVars>>

NextRows == LoadRowsCall

SpecRows == InitRows /\ [][NextRows]_vars

-----------------------------------------------------------------------------
(* convert_excel.py: main, one action per step of the run.                 *)

MainTextEntries == {NonStr, Text(<<" ">>), Text(<<"y">>)}

InitMain ==
    /\ pc = "main"
    /\ files = {} /\ exit_code = "none"
    /\ json_exists \in BOOLEAN
    /\ json_stem \in {report, giam_cuong_7_res}
    /\ IF json_exists
       THEN json_data \in
                [input_path : {<<>>, <<"a", "_", "7", ".", "a">>, <<"7">>, <<".">>},
                 rec_texts : SeqsUpTo(MainTextEntries, MaxMainTexts),
                 rec_polys : {<<>>, <<Poly1>>}]
       ELSE json_data = NoJson
    /\ \E bc \in {<<>>, LSE_001}, bca \in {<<>>, <<"b">>},
          base \in {BOOK_BASE, <<>>}, hv \in BOOLEAN,
          ie \in BOOLEAN, we \in BOOLEAN :
           args = [DefaultArgs EXCEPT !.book_code = bc, !.book_code_arg = bca,
                                      !.base_book_code = base,
                                      !.has_volume = hv, !.volume = 4,
                                      !.include_empty = ie, !.write_excel = we]
    /\ pandas_ok \in BOOLEAN
    /\ column_idx = 1
    /\ inferred = [book_code |-> <<>>, volume |-> 0]
    /\ id = <<>> /\ rows = <<>> /\ main_book_code = <<>> /\ main_volume = 0
    /\ PdfIdle /\ OcrIdle

\* line 245: if args.write_excel
ExcelWanted(a) == a.write_excel

RowsEmptyNever(r) == FALSE

\* line 236: if not rows
RowsEmpty(r) == r = <<>>

\* lines 210-211: the JSON is absent, sys.exit with a message
Main_MissingJson ==
    /\ pc = "main"
    /\ ~json_exists
    /\ pc' = "exit"
    /\ exit_code' = "fatal"
    /\ UNCHANGED <<builderVars, files, pdfVars, ocrVars>>

\* lines 213-234: parse, infer, choose book code and volume, load the rows
Main_Load ==
    /\ pc = "main"
    /\ json_exists
    /\ LET inf == InferBookAndVolume(json_data, json_stem)
           bc == ChooseBookCode(args, inf.book_code)
           vol == ChooseVolume(args, inf.volume)
       IN  /\ inferred' = inf
           /\ main_book_code' = bc
           /\ main_volume' = vol
           /\ rows' = LoadRows(json_data, bc, vol, args.page, args.include_empty,
                               args.volume_pad, args.page_pad, args.column_pad)
    /\ pc' = "rows"
    /\ UNCHANGED <<json_exists, json_stem, json_data, args, pandas_ok,
                   column_idx, id, files, exit_code, pdfVars, ocrVars>>

\* lines 236-238: no rows, a message on stderr and a normal return
Main_NoRows ==
    /\ pc = "rows"
    /\ RowsEmpty(rows)
    /\ pc' = "exit"
    /\ exit_code' = "ok"
    /\ UNCHANGED <<builderVars, files, pdfVars, ocrVars>>

\* lines 240-243 and write_csv: the output directory and the CSV
Main_WriteCsv ==
    /\ pc = "rows"
    /\ ~RowsEmpty(rows)
    /\ files' = files \cup {"output_dir", "csv"}
    /\ pc' = "csv_written"
    /\ UNCHANGED <<builderVars, exit_code, pdfVars, ocrVars>>

\* lines 245-247 and write_excel: the spreadsheet when requested, skipped
\* with a warning when pandas cannot be imported
Main_WriteExcel ==
    /\ pc = "csv_written"
    /\ ExcelWanted(args)
    /\ files' = IF pandas_ok THEN files \cup {"output_dir", "xlsx"} ELSE files
    /\ pc' = "report"
    /\ UNCHANGED <<builderVars, exit_code, pdfVars, ocrVars>>

Main_NoExcel ==
    /\ pc = "csv_written"
    /\ ~ExcelWanted(args)
    /\ pc' = "report"
    /\ UNCHANGED <<builderVars, files, exit_code, pdfVars, ocrVars>>

\* lines 249-251: the summary, and main returns
Main_Report ==
    /\ pc = "report"
    /\ pc' = "exit"
    /\ exit_code' = "ok"
    /\ UNCHANGED <<builderVars, files, pdfVars, ocrVars>>

NextMain ==
    \/ Main_MissingJson
    \/ Main_Load
    \/ Main_NoRows
    \/ Main_WriteCsv
    \/ Main_WriteExcel
    \/ Main_NoExcel
    \/ Main_Report

SpecMain == InitMain /\ [][NextMain]_vars

-----------------------------------------------------------------------------
(* convert_image.py and Source/pdf_to_preprocessed_image.py.               *)

\* PyMuPDF's Document.load_page: an index below the page count is in the
\* document (a negative one counts from the end), any other raises
LoadPageOk(pno, n) == pno < n

PageValid_SingleNoLower(pno, n) == pno < n

\* convert_image.py line 21: if 0 <= page_number < len(doc)
PageValid_Single(pno, n) == 0 <= pno /\ pno < n

\* pdf_to_preprocessed_image.py line 34: if not (0 <= page_num < len(doc))
PageValid_Convert(pno, n) == 0 <= pno /\ pno < n

\* pdf_to_preprocessed_image.py line 93: if not (0 <= page_index < total_pages)
PageValid_Prompt(pno, n) == 0 <= pno /\ pno < n

\* convert_pdf_to_image: what a call can end with. It writes nothing.
ConvertOutcomes(exists, opens, zoomOk, pno, n) ==
    IF ~exists THEN {"not_found"}
    ELSE IF ~zoomOk THEN {"invalid_zoom"}
    ELSE IF ~opens THEN {"error"}
    ELSE IF ~PageValid_Convert(pno, n) THEN {"out_of_range"}
    ELSE {"ok", "error"}

\* _prompt_page_number: the zero-based index, or the reason for None
PromptPageNumber(t, n) ==
    IF t.kind = "empty" THEN [ok |-> FALSE, index |-> 0, why |-> "invalid_input"]
    ELSE IF t.kind = "text" THEN [ok |-> FALSE, index |-> 0, why |-> "invalid_input"]
    ELSE IF ~PageValid_Prompt(t.n - 1, n)
         THEN [ok |-> FALSE, index |-> 0, why |-> "out_of_range"]
         ELSE [ok |-> TRUE, index |-> t.n - 1, why |-> "none"]

TypedInputs ==
    {[kind |-> "empty", n |-> 0], [kind |-> "text", n |-> 0]}
    \cup [kind : {"int"}, n : (-1)..(MaxPages + 2)]

InitPdf ==
    /\ pc = "start"
    /\ files = {} /\ exit_code = "none"
    /\ BuilderIdle /\ OcrIdle
    /\ util \in {"single", "all", "render", "pipeline"}
    /\ pdf_exists \in BOOLEAN
    /\ pdf_opens \in BOOLEAN
    /\ num_pages \in 1..MaxPages
    /\ IF util \in {"single", "render"}
       THEN page_number \in (-2)..(MaxPages + 1) ELSE page_number = 0
    /\ IF util = "render" THEN zoom_ok \in BOOLEAN ELSE zoom_ok = TRUE
    /\ IF util = "pipeline" THEN typed \in TypedInputs ELSE typed = NoTyped
    /\ IF util = "all" THEN folder_exists \in BOOLEAN ELSE folder_exists = TRUE
    /\ page_index = 0
    /\ pages_done = 0
    /\ image_data = "none"
    /\ processed_image = "none"
    /\ outcome = "none"

pdfInputs == <<util, pdf_exists, pdf_opens, num_pages, page_number, zoom_ok,
               typed, folder_exists>>

pipeLocals == <<image_data, processed_image>>

\* every routine ends here, having printed its report
Finish(what) ==
    /\ pc' = "done"
    /\ outcome' = what

\* convert_pdf_page_to_image, lines 18 and 46-49: fitz.open
Single_Open ==
    /\ util = "single" /\ pc = "start"
    /\ IF ~pdf_exists THEN Finish("not_found")
       ELSE IF ~pdf_opens THEN Finish("error")
       ELSE pc' = "single_check" /\ UNCHANGED outcome
    /\ UNCHANGED <<pdfInputs, pipeLocals, page_index, pages_done, files, exit_code,
                   builderVars, ocrVars>>

\* lines 21-25: the range check
Single_Check ==
    /\ util = "single" /\ pc = "single_check"
    /\ IF PageValid_Single(page_number, num_pages)
       THEN pc' = "single_render" /\ UNCHANGED outcome
       ELSE Finish("out_of_range")
    /\ UNCHANGED <<pdfInputs, pipeLocals, page_index, pages_done, files, exit_code,
                   builderVars, ocrVars>>

\* lines 22 and 29-44: load_page, render, img.save; any exception is printed
Single_Render ==
    /\ util = "single" /\ pc = "single_render"
    /\ \E ok \in BOOLEAN :
           IF ok /\ LoadPageOk(page_number, num_pages)
           THEN files' = files \cup {"output_image"} /\ Finish("ok")
           ELSE UNCHANGED files /\ Finish("error")
    /\ UNCHANGED <<pdfInputs, pipeLocals, page_index, pages_done, exit_code,
                   builderVars, ocrVars>>

\* convert_all_pdf_pages_to_images, lines 56-57: the output folder is made
\* before the PDF is opened
All_MakeDir ==
    /\ util = "all" /\ pc = "start"
    /\ files' = IF ~folder_exists THEN files \cup {"output_folder"} ELSE files
    /\ pc' = "all_open"
    /\ UNCHANGED <<pdfInputs, pipeLocals, page_index, pages_done, outcome, exit_code,
                   builderVars, ocrVars>>

\* lines 59 and 78-81: fitz.open
All_Open ==
    /\ util = "all" /\ pc = "all_open"
    /\ IF ~pdf_exists THEN Finish("not_found")
       ELSE IF ~pdf_opens THEN Finish("error")
       ELSE pc' = "all_loop" /\ UNCHANGED outcome
    /\ UNCHANGED <<pdfInputs, pipeLocals, page_index, pages_done, files, exit_code,
                   builderVars, ocrVars>>

\* lines 62-73: one page rendered and saved, or an exception ends the loop
All_SavePage ==
    /\ util = "all" /\ pc = "all_loop"
    /\ pages_done < num_pages
    /\ \E ok \in BOOLEAN :
           IF ok
           THEN /\ files' = files \cup {"page_image"}
                /\ pages_done' = pages_done + 1
                /\ UNCHANGED <<pc, outcome>>
           ELSE UNCHANGED <<files, pages_done>> /\ Finish("error")
    /\ UNCHANGED <<pdfInputs, pipeLocals, page_index, exit_code, builderVars, ocrVars>>

\* lines 75-76: the loop is over
All_Finish ==
    /\ util = "all" /\ pc = "all_loop"
    /\ pages_done = num_pages
    /\ Finish("ok")
    /\ UNCHANGED <<pdfInputs, pipeLocals, page_index, pages_done, files, exit_code,
                   builderVars, ocrVars>>

\* convert_pdf_to_image called on its own: it returns the array or raises
Render_Call ==
    /\ util = "render" /\ pc = "start"
    /\ \E o \in ConvertOutcomes(pdf_exists, pdf_opens, zoom_ok, page_number, num_pages) :
           Finish(o)
    /\ UNCHANGED <<pdfInputs, pipeLocals, page_index, pages_done, files, exit_code,
                   builderVars, ocrVars>>

\* pdf_to_preprocessed_image.main, lines 104-107: the existence check
Pipe_CheckPdf ==
    /\ util = "pipeline" /\ pc = "start"
    /\ IF ~pdf_exists THEN Finish("not_found")
       ELSE pc' = "pipe_open" /\ UNCHANGED outcome
    /\ UNCHANGED <<pdfInputs, pipeLocals, page_index, pages_done, files, exit_code,
                   builderVars, ocrVars>>

\* lines 109-114: the page count
Pipe_Open ==
    /\ util = "pipeline" /\ pc = "pipe_open"
    /\ IF pdf_opens THEN pc' = "pipe_prompt" /\ UNCHANGED outcome
       ELSE Finish("error")
    /\ UNCHANGED <<pdfInputs, pipeLocals, page_index, pages_done, files, exit_code,
                   builderVars, ocrVars>>

\* lines 116-118: the prompt
Pipe_Prompt ==
    /\ util = "pipeline" /\ pc = "pipe_prompt"
    /\ LET r == PromptPageNumber(typed, num_pages)
       IN  IF r.ok
           THEN page_index' = r.index /\ pc' = "pipe_mkdir" /\ UNCHANGED outcome
           ELSE UNCHANGED page_index /\ Finish(r.why)
    /\ UNCHANGED <<pdfInputs, pipeLocals, pages_done, files, exit_code, builderVars, ocrVars>>

\* lines 123-126: os.makedirs(..., exist_ok=True) for both directories
Pipe_MakeDirs ==
    /\ util = "pipeline" /\ pc = "pipe_mkdir"
    /\ files' = files \cup {"content", "Processed"}
    /\ pc' = "pipe_convert"
    /\ UNCHANGED <<pdfInputs, pipeLocals, page_index, pages_done, outcome, exit_code,
                   builderVars, ocrVars>>

\* line 133 and the except clauses: convert_pdf_to_image(pdf_path, page_index, zoom=2.0)
Pipe_Convert ==
    /\ util = "pipeline" /\ pc = "pipe_convert"
    /\ \E o \in ConvertOutcomes(pdf_exists, pdf_opens, TRUE, page_index, num_pages) :
           IF o = "ok"
           THEN /\ image_data' = "array"
                /\ pc' = "pipe_preprocess" /\ UNCHANGED outcome
           ELSE UNCHANGED image_data /\ Finish(o)
    /\ UNCHANGED <<pdfInputs, processed_image, page_index, pages_done, files, exit_code,
                   builderVars, ocrVars>>

\* line 134: preprocess_image_for_ocr, which may raise
Pipe_Preprocess ==
    /\ util = "pipeline" /\ pc = "pipe_preprocess"
    /\ \E ok \in BOOLEAN :
           IF ok
           THEN /\ processed_image' = "array"
                /\ pc' = "pipe_write_raw" /\ UNCHANGED outcome
           ELSE UNCHANGED processed_image /\ Finish("error")
    /\ UNCHANGED <<pdfInputs, image_data, page_index, pages_done, files, exit_code,
                   builderVars, ocrVars>>

RawWriteUnchecked(written) == FALSE

\* line 137: if not cv2.imwrite(raw_output_path, image_data)
RawWriteFailed(written) == ~written

\* lines 137-138: the raw image; cv2.imwrite returning False raises IOError
Pipe_WriteRaw ==
    /\ util = "pipeline" /\ pc = "pipe_write_raw"
    /\ \E ok \in BOOLEAN :
           /\ files' = IF ok THEN files \cup {"raw_png"} ELSE files
           /\ IF RawWriteFailed(ok) THEN Finish("io_error")
              ELSE pc' = "pipe_write_processed" /\ UNCHANGED outcome
    /\ UNCHANGED <<pdfInputs, pipeLocals, page_index, pages_done, exit_code,
                   builderVars, ocrVars>>

\* lines 141-148: the processed image and the summary
Pipe_WriteProcessed ==
    /\ util = "pipeline" /\ pc = "pipe_write_processed"
    /\ \E ok \in BOOLEAN :
           IF ok
           THEN files' = files \cup {"processed_png"} /\ Finish("ok")
           ELSE UNCHANGED files /\ Finish("io_error")
    /\ UNCHANGED <<pdfInputs, pipeLocals, page_index, pages_done, exit_code,
                   builderVars, ocrVars>>

NextPdf ==
    \/ Single_Open
    \/ Single_Check
    \/ Single_Render
    \/ All_MakeDir
    \/ All_Open
    \/ All_SavePage
    \/ All_Finish
    \/ Render_Call
    \/ Pipe_CheckPdf
    \/ Pipe_Open
    \/ Pipe_Prompt
    \/ Pipe_MakeDirs
    \/ Pipe_Convert
    \/ Pipe_Preprocess
    \/ Pipe_WriteRaw
    \/ Pipe_WriteProcessed

SpecPdf == InitPdf /\ [][NextPdf]_vars

-----------------------------------------------------------------------------
(* OCR_chinese.py: run_folder.                                             *)

\* the characters of the file names, in code point order
OrderedChars ==
    <<".", "B", "G", "J", "P", "a", "b", "c", "d", "e", "f", "g", "i", "j",
      "m", "n", "p", "t", "x">>

CodeRank(c) == CHOOSE i \in 1..Len(OrderedChars) : OrderedChars[i] = c

\* Python's < on str: the first differing character decides, a proper
\* prefix is smaller
RECURSIVE StrLess(_, _)
StrLess(s, t) ==
    IF t = <<>> THEN FALSE
    ELSE IF s = <<>> THEN TRUE
    ELSE IF Head(s) # Head(t) THEN CodeRank(Head(s)) < CodeRank(Head(t))
    ELSE StrLess(Tail(s), Tail(t))

\* sorted(names)
RECURSIVE Sorted(_)
Sorted(S) ==
    IF S = {} THEN <<>>
    ELSE LET m == CHOOSE x \in S : \A y \in S \ {x} : StrLess(x, y)
         IN  <<m>> \o Sorted(S \ {m})

\* str.lower() on the characters of the file names
LowerChar(c) ==
    CASE c = "B" -> "b" [] c = "G" -> "g" [] c = "J" -> "j" [] c = "P" -> "p"
      [] OTHER -> c

Lower(s) == [i \in 1..Len(s) |-> LowerChar(s[i])]

\* os.path.splitext(name)[1]: from the last dot on, unless only dots
\* come before it
SplitExt(name) ==
    LET dots == {i \in 1..Len(name) : name[i] = "."}
        last == IF dots = {} THEN 0
                ELSE CHOOSE i \in dots : \A j \in dots : j <= i
    IN  IF last = 0 \/ \A j \in 1..(last - 1) : name[j] = "." THEN <<>>
        ELSE SubSeq(name, last, Len(name))

\* line 52
supported_exts ==
    {<<".", "p", "n", "g">>, <<".", "j", "p", "g">>, <<".", "j", "p", "e", "g">>,
     <<".", "b", "m", "p">>, <<".", "t", "i", "f">>, <<".", "t", "i", "f", "f">>}

\* lines 53-60: the regular files with a supported extension, sorted by name
CollectImages(entries) ==
    Sorted({e.name : e \in {x \in entries :
                x.isfile /\ Lower(SplitExt(x.name)) \in supported_exts}})

a_png == <<"a", ".", "p", "n", "g">>
B_JPG == <<"B", ".", "J", "P", "G">>
b_tiff == <<"b", ".", "t", "i", "f", "f">>
c_txt == <<"c", ".", "t", "x", "t">>
d_png == <<"d", ".", "p", "n", "g">>
dot_png == <<".", "p", "n", "g">>

FolderEntries ==
    {[name |-> a_png, isfile |-> TRUE], [name |-> B_JPG, isfile |-> TRUE],
     [name |-> b_tiff, isfile |-> TRUE], [name |-> c_txt, isfile |-> TRUE],
     [name |-> d_png, isfile |-> FALSE], [name |-> <<"e">>, isfile |-> TRUE],
     [name |-> dot_png, isfile |-> TRUE]}

\* what a call of run_ocr can end with: its result, or an exception
RunOcrOutcomes == {"ok", "FileNotFoundError", "RuntimeError"}

CaughtOnlyNotFound(exc) == exc = "FileNotFoundError"

\* line 70: except Exception
Caught(exc) == exc \in {"FileNotFoundError", "RuntimeError"}

InitOcr ==
    /\ pc = "start"
    /\ files = {} /\ exit_code = "none"
    /\ BuilderIdle /\ PdfIdle
    /\ is_dir \in BOOLEAN
    /\ IF is_dir
       THEN listing \in {L \in SUBSET FolderEntries : Cardinality(L) <= MaxEntries}
       ELSE listing = {}
    /\ image_files = <<>>
    /\ attempted = <<>>
    /\ failed = {}
    /\ ocr_saved = {}

\* lines 49-50: raise NotADirectoryError
Folder_NotADir ==
    /\ pc = "start"
    /\ ~is_dir
    /\ pc' = "done"
    /\ outcome' = "raised"
    /\ UNCHANGED <<util, pdf_exists, pdf_opens, num_pages, page_number, zoom_ok,
                   typed, folder_exists, page_index, pages_done,
                   image_data, processed_image,
                   ocrVars, files, exit_code, builderVars>>

\* lines 52-64: the images are collected; none is reported and returned
Folder_Collect ==
    /\ pc = "start"
    /\ is_dir
    /\ image_files' = CollectImages(listing)
    /\ IF image_files' = <<>>
       THEN pc' = "done" /\ outcome' = "no_images"
       ELSE pc' = "loop" /\ UNCHANGED outcome
    /\ UNCHANGED <<util, pdf_exists, pdf_opens, num_pages, page_number, zoom_ok,
                   typed, folder_exists, page_index, pages_done,
                   image_data, processed_image,
                   is_dir, listing, attempted, failed, ocr_saved,
                   files, exit_code, builderVars>>

\* lines 66-71: run_ocr on the next image; an exception the except clause
\* catches is printed and the loop goes on, any other leaves run_folder
Folder_RunOcr ==
    /\ pc = "loop"
    /\ Len(attempted) < Len(image_files)
    /\ LET image_path == image_files[Len(attempted) + 1]
       IN  /\ attempted' = Append(attempted, image_path)
           /\ \E r \in RunOcrOutcomes :
                  IF r = "ok"
                  THEN /\ ocr_saved' = ocr_saved \cup {image_path}
                       /\ UNCHANGED <<failed, pc, outcome>>
                  ELSE IF Caught(r)
                  THEN /\ failed' = failed \cup {image_path}
                       /\ UNCHANGED <<ocr_saved, pc, outcome>>
                  ELSE /\ failed' = failed \cup {image_path}
                       /\ pc' = "done" /\ outcome' = "raised"
                       /\ UNCHANGED ocr_saved
    /\ UNCHANGED <<util, pdf_exists, pdf_opens, num_pages, page_number, zoom_ok,
                   typed, folder_exists, page_index, pages_done,
                   image_data, processed_image,
                   is_dir, listing, image_files, files, exit_code, builderVars>>

\* the for loop is over and run_folder returns
Folder_Return ==
    /\ pc = "loop"
    /\ Len(attempted) = Len(image_files)
    /\ pc' = "done"
    /\ outcome' = "ok"
    /\ UNCHANGED <<util, pdf_exists, pdf_opens, num_pages, page_number, zoom_ok,
                   typed, folder_exists, page_index, pages_done,
                   image_data, processed_image,
                   ocrVars, files, exit_code, builderVars>>

NextOcr ==
    \/ Folder_NotADir
    \/ Folder_Collect
    \/ Folder_RunOcr
    \/ Folder_Return

SpecOcr == InitOcr /\ [][NextOcr]_vars

-----------------------------------------------------------------------------
(* Vocabulary of the properties, stated by position rather than through    *)
(* the string operations of the code.                                      *)

RECURSIVE Pow10(_)
Pow10(k) == IF k = 0 THEN 1 ELSE 10 * Pow10(k - 1)

\* the number of decimal digits of a natural number
NumDigits(n) == CHOOSE k \in 1..12 : n < Pow10(k) /\ (k = 1 \/ n >= Pow10(k - 1))

\* the decimal representation of n, left-padded with zeros to width w at
\* least: the digit at place i of a field of Max(w, NumDigits(n)) places
LeftPadded(n, w) ==
    LET L == Max(w, NumDigits(n))
    IN  [i \in 1..L |-> DigitChars[((n \div Pow10(L - i)) % 10) + 1]]

\* a text entry is a string with a character that is not whitespace
NonBlankString(t) == t.isStr /\ \E i \in 1..Len(t.val) : t.val[i] \notin Whitespace

\* the text of a non-blank entry between its first and last non-blank character
Trimmed(t) ==
    IF ~NonBlankString(t) THEN <<>>
    ELSE LET nb == {i \in 1..Len(t.val) : t.val[i] \notin Whitespace}
             lo == CHOOSE i \in nb : \A j \in nb : i <= j
             hi == CHOOSE i \in nb : \A j \in nb : j <= i
         IN  SubSeq(t.val, lo, hi)

\* the positions of rec_texts that survive the filter
Survivors ==
    {i \in 1..Len(json_data.rec_texts) :
        args.include_empty \/ NonBlankString(json_data.rec_texts[i])}

\* the k-th smallest element of a set of positions
Nth(S, k) == CHOOSE p \in S : Cardinality({q \in S : q <= p}) = k

\* the part of an ID after its last dot, and the number it denotes
LastField(s) ==
    LET dots == {i \in 1..Len(s) : s[i] = "."}
        last == CHOOSE i \in dots : \A j \in dots : j <= i
    IN  SubSeq(s, last + 1, Len(s))

FieldValue(f) ==
    LET v[i \in 0..Len(f)] ==
            IF i = 0 THEN 0
            ELSE 10 * v[i - 1] + ((CHOOSE d \in 1..10 : DigitChars[d] = f[i]) - 1)
    IN  v[Len(f)]

ColumnOf(row) == FieldValue(LastField(row.ID))

\* the identifier split at its last underscore
LastUnderscore(s) ==
    LET us == {i \in 1..Len(s) : s[i] = "_"}
    IN  IF us = {} THEN 0 ELSE CHOOSE i \in us : \A j \in us : j <= i

LastSegment(s) == SubSeq(s, LastUnderscore(s) + 1, Len(s))
PrefixBefore(s) == SubSeq(s, 1, LastUnderscore(s) - 1)

IsNatLiteral(t) ==
    /\ t # <<>>
    /\ \A i \in 1..Len(t) :
           t[i] \in {"0", "1", "2", "3", "4", "5", "6", "7", "8", "9"}

Identifier == CandidateStem(json_data, json_stem)

-----------------------------------------------------------------------------
(* Claims about the record builder.                                        *)

\* C1: with include_empty off, load_rows returns exactly as many rows as
\* rec_texts has entries that are strings with a non-whitespace character;
\* entries that are not strings produce no row.
C1_RowCount ==
    (pc = "loaded" /\ ~args.include_empty) =>
        Len(rows) = Cardinality({i \in 1..Len(json_data.rec_texts) :
                                    NonBlankString(json_data.rec_texts[i])})

\* C1 witness: a non-string, a whitespace-only string and a kept string
\* went through load_rows and one row came out.
C1_Witness ==
    /\ pc = "loaded" /\ ~args.include_empty
    /\ json_data.rec_texts = <<NonStr, Text(<<" ">>), Text(<<" ", "x", " ", "y", " ">>)>>
    /\ Len(rows) = 1
    /\ rows[1].Han_Char = <<"x", " ", "y">>

\* C2: no two rows returned by one load_rows call have the same ID.
C2_UniqueIds ==
    pc = "loaded" =>
        \A i, j \in 1..Len(rows) : i # j => rows[i].ID # rows[j].ID

\* C2 witness: a call that returned rows for columns 1 and 10 and 11, whose
\* column fields share digits.
C2_Witness ==
    /\ pc = "loaded"
    /\ Len(rows) >= 3
    /\ \E i, j, k \in 1..Len(rows) :
           ColumnOf(rows[i]) = 1 /\ ColumnOf(rows[j]) = 10 /\ ColumnOf(rows[k]) = 11

\* C3 as stated: the identifier is split at its last underscore; a last
\* segment that is a non-negative integer literal is the volume and the
\* prefix before it the book code, for every identifier; otherwise the
\* whole identifier is the book code and the volume is 1.
C3_AsStated ==
    pc = "inferred" =>
        inferred = IF IsNatLiteral(LastSegment(Identifier))
                   THEN [book_code |-> PrefixBefore(Identifier),
                         volume |-> FieldValue(LastSegment(Identifier))]
                   ELSE [book_code |-> Identifier, volume |-> 1]

\* C3 amended: as stated, except that when the prefix before the integer
\* segment is empty the book code is the whole identifier.
C3_Amended ==
    pc = "inferred" =>
        /\ inferred = IF IsNatLiteral(LastSegment(Identifier))
                      THEN [book_code |-> IF PrefixBefore(Identifier) # <<>>
                                          THEN PrefixBefore(Identifier)
                                          ELSE Identifier,
                            volume |-> FieldValue(LastSegment(Identifier))]
                      ELSE [book_code |-> Identifier, volume |-> 1]
        /\ Identifier = giam_cuong_7 =>
               inferred = [book_code |-> <<"g", "i", "a", "m", "_", "c", "u", "o", "n", "g">>,
                           volume |-> 7]
        /\ Identifier = report => inferred = [book_code |-> report, volume |-> 1]

\* C3 witness: an identifier that is only an integer segment was inferred
\* from, and the book code came out as the identifier itself.
C3_Witness ==
    /\ pc = "inferred"
    /\ Identifier = <<"7">>
    /\ inferred = [book_code |-> <<"7">>, volume |-> 7]

\* C4: build_id joins the book code and the volume, page and column with
\* dots, each number as its decimal digits left-padded with zeros to at
\* least its pad width and never truncated; LSE_001/4/1/1 with widths 3/3/2
\* is LSE_001.004.001.01 and column 100 with width 2 ends in 100.
C4_BuildId ==
    pc = "built" =>
        /\ id = args.book_code
                  \o <<".">> \o LeftPadded(args.volume, args.volume_pad)
                  \o <<".">> \o LeftPadded(args.page, args.page_pad)
                  \o <<".">> \o LeftPadded(column_idx, args.column_pad)
        /\ (/\ args.book_code = LSE_001 /\ args.volume = 4 /\ args.page = 1
            /\ column_idx = 1
            /\ args.volume_pad = 3 /\ args.page_pad = 3 /\ args.column_pad = 2)
           => id = LSE_001 \o <<".", "0", "0", "4", ".", "0", "0", "1", ".", "0", "1">>
        /\ (column_idx = 100 /\ args.column_pad = 2)
           => LastField(id) = <<"1", "0", "0">>

\* C4 witness: column 100 was formatted with pad width 2.
C4_Witness ==
    /\ pc = "built"
    /\ column_idx = 100 /\ args.column_pad = 2
    /\ args.book_code = LSE_001 /\ args.volume = 4 /\ args.page = 1
    /\ id = LSE_001 \o <<".", "0", "0", "4", ".", "0", "0", "1", ".", "1", "0", "0">>

\* C5: the rows are in the order of their entries in rec_texts, and the
\* column of each row's ID is the 1-based position of its entry in the
\* original list, so a dropped entry leaves a gap.
C5_OrderAndColumn ==
    pc = "loaded" =>
        /\ Len(rows) = Cardinality(Survivors)
        /\ \A k \in 1..Len(rows) :
               /\ ColumnOf(rows[k]) = Nth(Survivors, k)
               /\ rows[k].Han_Char = Trimmed(json_data.rec_texts[Nth(Survivors, k)])

\* C5 witness: the second entry was dropped and the third kept, so the
\* second row carries column 3.
C5_Witness ==
    /\ pc = "loaded" /\ ~args.include_empty
    /\ Len(json_data.rec_texts) = 3
    /\ Len(rows) = 2
    /\ ColumnOf(rows[1]) = 1
    /\ ColumnOf(rows[2]) = 3

\* C6 as stated: a row for position i carries the serialization of
\* rec_polys[i] whenever rec_polys has an entry at i, and an empty Image
\* Box beyond the end of rec_polys.
C6_AsStated ==
    pc = "loaded" =>
        \A k \in 1..Len(rows) :
            LET i == ColumnOf(rows[k])
            IN  rows[k].Image_Box =
                    IF i <= Len(json_data.rec_polys)
                    THEN Dumps(json_data.rec_polys[i]) ELSE <<>>

\* C6 amended: a row for position i carries the serialization of
\* rec_polys[i] when that entry is a non-empty polygon, and an empty Image
\* Box when the entry is null or an empty list or lies beyond the end of
\* rec_polys; it never carries the polygon of another position.
C6_Amended ==
    pc = "loaded" =>
        \A k \in 1..Len(rows) :
            LET i == ColumnOf(rows[k])
            IN  rows[k].Image_Box =
                    IF /\ i <= Len(json_data.rec_polys)
                       /\ json_data.rec_polys[i].kind = "list"
                       /\ json_data.rec_polys[i].pts # <<>>
                    THEN Dumps(json_data.rec_polys[i]) ELSE <<>>

\* C6 witness: rows for an empty-list entry, for a polygon and for a
\* position beyond the end of rec_polys.
C6_Witness ==
    /\ pc = "loaded"
    /\ json_data.rec_polys = <<Poly(<<>>), Poly1>>
    /\ Len(rows) = 3
    /\ rows[1].Image_Box = <<>>
    /\ rows[2].Image_Box = <<"[", "[", "1", ",", " ", "2", "]", ",", " ",
                             "[", "3", "0", ",", " ", "4", "]", "]">>
    /\ rows[3].Image_Box = <<>>

\* C7: in a run whose JSON exists and parses, zero surviving rows end the
\* run normally with no CSV and no spreadsheet written; with at least one
\* row the CSV is written, and a spreadsheet only if --write-excel was given.
C7_Outputs ==
    (pc = "exit" /\ json_exists) =>
        /\ exit_code = "ok"
        /\ Survivors = {} => files = {}
        /\ Survivors # {} => "csv" \in files
        /\ "xlsx" \in files => (args.write_excel /\ Survivors # {})

\* C7 witness: a finished run with surviving rows and --write-excel that
\* wrote the CSV and the spreadsheet.
C7_Witness ==
    /\ pc = "exit" /\ json_exists
    /\ args.write_excel /\ pandas_ok
    /\ Survivors # {}
    /\ files = {"output_dir", "csv", "xlsx"}

\* the book code the file name gives: the prefix before a trailing integer
\* segment, or the whole identifier
CodeFromName ==
    IF IsNatLiteral(LastSegment(Identifier)) /\ PrefixBefore(Identifier) # <<>>
    THEN PrefixBefore(Identifier) ELSE Identifier

\* --book-code, then the positional book code, then the code inferred from
\* the file name, then the base book code: the first that gives a value
BookCodePrecedence ==
    /\ args.book_code # <<>> => main_book_code = args.book_code
    /\ (args.book_code = <<>> /\ args.book_code_arg # <<>>)
       => main_book_code = args.book_code_arg
    /\ (args.book_code = <<>> /\ args.book_code_arg = <<>> /\ CodeFromName # <<>>)
       => main_book_code = CodeFromName
    /\ (args.book_code = <<>> /\ args.book_code_arg = <<>> /\ CodeFromName = <<>>)
       => main_book_code = args.base_book_code

\* C11 as stated: the book code follows the precedence --book-code,
\* positional book code, inferred code, base book code, and the chosen code
\* is never empty.
C11_AsStated ==
    (json_exists /\ pc # "main") =>
        /\ BookCodePrecedence
        /\ main_book_code # <<>>

\* C11 amended: the book code follows that precedence, and the chosen code
\* is empty only when --base-book-code is given as the empty string and
\* neither an explicit book code nor inference provides a value; with a
\* non-empty base book code, such as the default, it is never empty.
C11_Amended ==
    (json_exists /\ pc # "main") =>
        /\ BookCodePrecedence
        /\ args.base_book_code # <<>> => main_book_code # <<>>
        /\ main_book_code = <<>> =>
               /\ args.base_book_code = <<>>
               /\ args.book_code = <<>> /\ args.book_code_arg = <<>>
               /\ CodeFromName = <<>>

\* C11 witness: no explicit book code was given, the file name gave none,
\* and the run used the default base book code.
C11_Witness ==
    /\ json_exists /\ pc = "exit"
    /\ args.book_code = <<>> /\ args.book_code_arg = <<>>
    /\ json_data.input_path = <<".">>
    /\ Identifier = <<>>
    /\ main_book_code = BOOK_BASE
    /\ "csv" \in files

\* the image files a run can write
ImageFiles == {"output_image", "page_image", "raw_png", "processed_png"}

\* the page index the run was asked for
RequestedIndex == IF util = "pipeline" THEN typed.n - 1 ELSE page_number

\* C8: when the PDF is absent the routine reports it and the run creates
\* nothing on the file system, neither a file nor a directory.
C8_NothingCreated ==
    (util # "none" /\ ~pdf_exists) => files = {}

\* C9: with a PDF of n pages, a zero-based index outside 0..n-1 ends the
\* single-page renderer, convert_pdf_to_image and the pipeline's main with
\* the out-of-range report, and no image file is written.
C9_OutOfRange ==
    (/\ util \in {"single", "render", "pipeline"}
     /\ pdf_exists /\ pdf_opens /\ zoom_ok
     /\ util = "pipeline" => typed.kind = "int"
     /\ RequestedIndex \notin 0..(num_pages - 1))
    => /\ files \cap ImageFiles = {}
       /\ pc = "done" => outcome = "out_of_range"
       /\ pc \in {"start", "single_check", "pipe_open", "pipe_prompt", "done"}

\* C9 witness: index 5 was requested of a 5-page PDF in the single-page
\* renderer, which reported it.
C9_Witness ==
    /\ util = "single" /\ pc = "done"
    /\ pdf_exists /\ pdf_opens
    /\ num_pages = 5 /\ page_number = 5
    /\ outcome = "out_of_range"
    /\ files = {}

\* the images of the folder, in sorted name order
ImagesInOrder ==
    LET order == <<B_JPG, a_png, b_tiff>>
        present == {i \in 1..3 : [name |-> order[i], isfile |-> TRUE] \in listing}
    IN  [k \in 1..Cardinality(present) |-> order[Nth(present, k)]]

\* C10: on an existing directory run_folder calls run_ocr on every regular
\* file with a supported image extension once, in sorted name order; a
\* failure on one image does not stop the loop, which reaches the last
\* image, and run_folder returns without raising.
C10_BestEffortBatch ==
    is_dir =>
        /\ outcome # "raised"
        /\ \A k \in 1..Len(attempted) :
               k <= Len(ImagesInOrder) /\ attempted[k] = ImagesInOrder[k]
        /\ pc = "done" => attempted = ImagesInOrder
        /\ pc # "done" => ENABLED NextOcr

\* C10 witness: the first of three images failed, the last was still
\* processed and run_folder returned.
C10_Witness ==
    /\ is_dir /\ pc = "done" /\ outcome = "ok"
    /\ attempted = <<B_JPG, a_png, b_tiff>>
    /\ B_JPG \in failed
    /\ b_tiff \in ocr_saved

\* the image files of the pipeline's main
PipelineImages == {"raw_png", "processed_png"}

=============================================================================
